---------------------------- MODULE Spec2Model ----------------------------
(***************************************************************************)
(* A model of cic.py, the C Identifiers Checker: check(args) validates an *)
(* identifier and classifies it against the knowledge base of one or of   *)
(* all C standards.                                                        *)
(*                                                                         *)
(* A string is the sequence of its characters.  A regular expression is   *)
(* the sequence of its tokens: a literal character, "." (any character),  *)
(* one of the two character classes of C_IDENTIFIER_REGEX, and the        *)
(* postfix "*".  A file of the knowledge base is a record [kind, json]:   *)
(* kind is "missing" (open() fails), "malformed" (json.loads() fails) or  *)
(* "ok"; a JSON object whose keys are data is the sequence of its         *)
(* [key, val] pairs in file order, a JSON object with fixed keys is a     *)
(* record that may lack any of them.  A line of output is a record        *)
(* [k, n, t]: what the line says, the name and the string it holds.       *)
(***************************************************************************)
EXTENDS Integers, Sequences, FiniteSets

VARIABLES
    kb,           \* the knowledge base: which contents each standard's files hold
    args,         \* [identifier, standard], as parse_arguments() returns them
    pc,           \* "start", "loop" (inside check's for loop) or "exited"
    todo,         \* the standards check() has still to go through
    out,          \* the lines check() and is_valid_c_identifier() printed
    calls,        \* one record per check_for_standard() call, in call order
    exit_status,  \* the process's exit status, -1 while it runs
    previous      \* << >>, or the record of the run before this one

vars == <<kb, args, pc, todo, out, calls, exit_status, previous>>

\* ------------------------------------------------------------- bounds

\* Longest identifier given on the command line.
MaxLen == 2

\* The characters identifiers are made of: a letter, a digit, the
\* underscore and a character no C identifier holds.
Letters == {"a"}
Digits == {"1"}
Alphabet == Letters \cup Digits \cup {"_", "-"}

Identifiers == UNION {[1..n -> Alphabet] : n \in 0..MaxLen}

\* ---------------------------------------------------------- constants

IN_USE_FILE_NAME == "in_use.json"
KEYWORDS_FILE_NAME == "keywords.json"
RESERVED_FILE_NAME == "reserved.json"
PARTICULAR_IDENTIFIERS_FILE_NAME == "particular_identifiers.json"
RESERVED_PATTERNS_MATCHING_FILE_NAME == "reserved_patterns_matching.json"
RESERVED_PATTERNS_FILE_NAME == "reserved_patterns.json"
STANDARDS == <<"knr", "89", "99", "11", "23">>
STANDARD_ALL == "all"
C_IDENTIFIER_REGEX == <<"[a-zA-Z_]", "[a-zA-Z0-9_]", "*">>

STANDARD_CONFIGURATIONS ==
    [s \in {"knr", "89", "99", "11", "23"} |->
        CASE s = "knr" -> [name |-> "K&R-C (1978)", files_format |-> "CHAPTER_REFERENCE"]
          [] s = "89"  -> [name |-> "C89",          files_format |-> "CHAPTER_REFERENCE"]
          [] s = "99"  -> [name |-> "C99)",         files_format |-> "CHAPTER_REFERENCE"]
          [] s = "11"  -> [name |-> "C11",          files_format |-> "CHAPTER_REFERENCE"]
          [] s = "23"  -> [name |-> "C23",          files_format |-> "LIST_REFERENCE"]]

\* parse_arguments: the choices of --standard.
standard_choices == <<STANDARD_ALL>> \o STANDARDS

Range(s) == {s[i] : i \in DOMAIN s}

Min(S) == CHOOSE x \in S : \A y \in S : x <= y

\* ------------------------------------------------------ re.fullmatch

\* Whether regular-expression token `atom` matches the character c.
AtomMatches(atom, c) ==
    CASE atom = "."            -> TRUE
      [] atom = "[a-zA-Z_]"    -> c \in Letters \cup {"_"}
      [] atom = "[a-zA-Z0-9_]" -> c \in Letters \cup Digits \cup {"_"}
      [] OTHER                 -> atom = c

RECURSIVE re_fullmatch(_, _)
\* re.fullmatch(pattern, string) is not None: the whole string matches.
re_fullmatch(pattern, string) ==
    IF pattern = << >> THEN string = << >>
    ELSE IF Len(pattern) >= 2 /\ pattern[2] = "*"
         THEN \/ re_fullmatch(SubSeq(pattern, 3, Len(pattern)), string)
              \/ /\ string # << >>
                 /\ AtomMatches(pattern[1], string[1])
                 /\ re_fullmatch(pattern, Tail(string))
         ELSE /\ string # << >>
              /\ AtomMatches(pattern[1], string[1])
              /\ re_fullmatch(Tail(pattern), Tail(string))

\* ------------------------------------------------------------- output

Line(k, n, t) == [k |-> k, n |-> n, t |-> t]

\* What a function hands back: its return value, how it ended ("none": it
\* returned; "exception": an exception left it; "exit_error": exit(1)),
\* the lines it printed and the files it opened.
Outcome(ret, raised, lines, loads) ==
    [ret |-> ret, raised |-> raised, lines |-> lines, loads |-> loads]

\* exit_error(msg): prints and ends the process.
exit_error(msg, loads) ==
    Outcome(FALSE, "exit_error",
            (IF msg # "" THEN <<Line("message", msg, << >>)>> ELSE << >>)
                \o <<Line("terminating", "", << >>)>>,
            loads)

\* ------------------------------------------- knowledge bases checked

\* A file of the knowledge base: absent, not JSON, or holding a JSON value.
Missing == [kind |-> "missing", json |-> << >>]
Malformed == [kind |-> "malformed", json |-> << >>]
Ok(json) == [kind |-> "ok", json |-> json]

Entry(key, val) == [key |-> key, val |-> val]

\* The contents in_use.json is given.
InUseOpts ==
    <<Ok(<<Entry(<<"a", "_">>, "7.1"), Entry(<<"a", ".">>, "7.2"),
           Entry(<<"_", "a">>, "7.3")>>),
      Ok(<< >>),
      Missing,
      Malformed>>

\* The contents keywords.json is given: the third and fourth lack an
\* expected key.
KeywordsOpts ==
    <<Ok([keywords |-> <<<<"a">>, <<"a", "a">>, <<"_", "_">>>>, reference |-> "6.4.1"]),
      Missing,
      Ok([keywords |-> <<<<"a">>, <<"a", "a">>, <<"_", "_">>>>]),
      Ok([reference |-> "6.4.1"]),
      Malformed>>

\* The contents reserved.json is given.
ReservedOpts ==
    <<Ok(<<Entry(<<"_", "_">>, "7.1.3a"), Entry(<<"_", ".", "*">>, "7.1.3b"),
           Entry(<<"a", "1">>, "7.26")>>),
      Ok(<< >>),
      Missing,
      Malformed>>

\* The contents particular_identifiers.json is given: the fourth has an
\* unknown list_type, the fifth no description.
ParticularOpts ==
    <<Ok([list_type |-> "plain", description |-> "particular identifier",
          list |-> <<<<"a">>, <<"a", ".">>, <<"_", "a">>>>]),
      Ok([list_type |-> "regex", description |-> "particular identifier",
          list |-> <<<<"a", ".">>, <<"a", "*">>>>]),
      Missing,
      Ok([list_type |-> "glob", description |-> "particular identifier",
          list |-> <<<<"a">>>>]),
      Ok([list_type |-> "plain", list |-> <<<<"a">>, <<"_", "a">>>>]),
      Malformed>>

\* The contents reserved_patterns_matching.json is given.
MatchingOpts ==
    <<Ok([list_type |-> "regex", description |-> "matches reserved pattern",
          list |-> <<<<"_", "a">>, <<"_", "_", ".", "*">>>>]),
      Ok([list_type |-> "plain", description |-> "matches reserved pattern",
          list |-> <<<<"_", "1">>, <<"_", ".">>>>]),
      Missing,
      Ok([list_type |-> "glob", description |-> "matches reserved pattern",
          list |-> << >>]),
      Malformed>>

\* The contents reserved_patterns.json is given: the second has no list.
PatternsOpts ==
    <<Ok([list_type |-> "regex", description |-> "reserved pattern",
          list |-> <<<<"_", ".", "*">>, <<"a", "1">>>>]),
      Ok([list_type |-> "regex", description |-> "reserved pattern"]),
      Malformed>>

ChapterFiles == <<IN_USE_FILE_NAME, KEYWORDS_FILE_NAME, RESERVED_FILE_NAME>>
ListFiles == <<PARTICULAR_IDENTIFIERS_FILE_NAME, RESERVED_PATTERNS_MATCHING_FILE_NAME,
               RESERVED_PATTERNS_FILE_NAME>>

\* The files check_for_standard reads for a standard, in reading order.
FilesOf(standard) ==
    IF STANDARD_CONFIGURATIONS[standard].files_format = "CHAPTER_REFERENCE"
    THEN ChapterFiles ELSE ListFiles

\* The contents given to the three files of a standard, in reading order.
Opts(standard) ==
    IF STANDARD_CONFIGURATIONS[standard].files_format = "CHAPTER_REFERENCE"
    THEN <<InUseOpts, KeywordsOpts, ReservedOpts>>
    ELSE <<ParticularOpts, MatchingOpts, PatternsOpts>>

FileIndex(standard, file_name) ==
    CHOOSE i \in DOMAIN FilesOf(standard) : FilesOf(standard)[i] = file_name

\* A knowledge base kb_ gives each standard the triple of the numbers of the
\* contents its three files hold; this is the file itself.
FileAt(kb_, standard, i) == Opts(standard)[i][kb_[standard][i]]

File(kb_, standard, file_name) == FileAt(kb_, standard, FileIndex(standard, file_name))

\* A complete knowledge base, differing from standard to standard.
BaseDir(standard) ==
    CASE standard = "knr" -> <<2, 1, 2>>
      [] standard = "89"  -> <<1, 1, 1>>
      [] standard = "99"  -> <<2, 1, 1>>
      [] standard = "11"  -> <<1, 1, 2>>
      [] standard = "23"  -> <<1, 1, 1>>

\* ------------------------------------------------- reading the rules

\* What reading a file gives: open() raises for a missing file,
\* json.loads() for a malformed one.
Loaded(file) == [raised |-> file.kind # "ok", json |-> file.json]

load_from_json(kb_, standard, file_name) == Loaded(File(kb_, standard, file_name))

\* is_in_use after its first line, f being what load_from_json gave, as its
\* commented-out variant has it: the identifier looked up as a key of the
\* dictionary, not matched against the keys as patterns.
in_use_exact_key(f, standard, identifier) ==
    LET in_use_dict == f.json
        hits == {i \in DOMAIN in_use_dict : in_use_dict[i].key = identifier}
    IN  IF f.raised THEN Outcome(FALSE, "exception", << >>, <<IN_USE_FILE_NAME>>)
        ELSE IF hits = {} THEN Outcome(FALSE, "none", << >>, <<IN_USE_FILE_NAME>>)
        ELSE Outcome(TRUE, "none",
                     <<Line("in_use", "", identifier),
                       Line("reference", STANDARD_CONFIGURATIONS[standard].name,
                            <<in_use_dict[Min(hits)].val>>)>>,
                     <<IN_USE_FILE_NAME>>)

\* is_in_use after its first line, f being what load_from_json gave.
in_use(f, standard, identifier) ==
    LET in_use_dict == f.json
        hits == {i \in DOMAIN in_use_dict : re_fullmatch(in_use_dict[i].key, identifier)}
    IN  IF f.raised THEN Outcome(FALSE, "exception", << >>, <<IN_USE_FILE_NAME>>)
        ELSE IF hits = {} THEN Outcome(FALSE, "none", << >>, <<IN_USE_FILE_NAME>>)
        ELSE Outcome(TRUE, "none",
                     <<Line("in_use", "", identifier),
                       Line("reference", STANDARD_CONFIGURATIONS[standard].name,
                            <<in_use_dict[Min(hits)].val>>)>>,
                     <<IN_USE_FILE_NAME>>)

is_in_use(kb_, standard, identifier) ==
    in_use(load_from_json(kb_, standard, IN_USE_FILE_NAME), standard, identifier)

\* is_keyword after its first line.
keyword(f, standard, identifier) ==
    LET keywords_dict == f.json
    IN  IF f.raised \/ "keywords" \notin DOMAIN keywords_dict
        THEN Outcome(FALSE, "exception", << >>, <<KEYWORDS_FILE_NAME>>)
        ELSE IF identifier \notin Range(keywords_dict.keywords)
        THEN Outcome(FALSE, "none", << >>, <<KEYWORDS_FILE_NAME>>)
        ELSE IF "reference" \notin DOMAIN keywords_dict
        \* the first print has run when the second one's f-string raises
        THEN Outcome(FALSE, "exception", <<Line("keyword", "", identifier)>>,
                     <<KEYWORDS_FILE_NAME>>)
        ELSE Outcome(TRUE, "none",
                     <<Line("keyword", "", identifier),
                       Line("reference", STANDARD_CONFIGURATIONS[standard].name,
                            <<keywords_dict.reference>>)>>,
                     <<KEYWORDS_FILE_NAME>>)

is_keyword(kb_, standard, identifier) ==
    keyword(load_from_json(kb_, standard, KEYWORDS_FILE_NAME), standard, identifier)

\* is_reserved after its first line.
reserved(f, standard, identifier) ==
    LET reserved_dict == f.json
        hits == {i \in DOMAIN reserved_dict : re_fullmatch(reserved_dict[i].key, identifier)}
    IN  IF f.raised THEN Outcome(FALSE, "exception", << >>, <<RESERVED_FILE_NAME>>)
        ELSE IF hits = {} THEN Outcome(FALSE, "none", << >>, <<RESERVED_FILE_NAME>>)
        ELSE Outcome(TRUE, "none",
                     <<Line("reserved", "", reserved_dict[Min(hits)].key),
                       Line("reference", STANDARD_CONFIGURATIONS[standard].name,
                            <<reserved_dict[Min(hits)].val>>)>>,
                     <<RESERVED_FILE_NAME>>)

is_reserved(kb_, standard, identifier) ==
    reserved(load_from_json(kb_, standard, RESERVED_FILE_NAME), standard, identifier)

\* check_in_file after its first line, matching the entries of a plain
\* list as patterns too.
in_file_all_regex(f, file_name, identifier) ==
    LET root_dict == f.json
        has(key) == key \in DOMAIN root_dict
        regex_hits == {i \in DOMAIN root_dict.list : re_fullmatch(root_dict.list[i], identifier)}
    IN  IF f.raised \/ ~has("list_type")
        THEN Outcome(FALSE, "exception", << >>, <<file_name>>)
        ELSE IF root_dict.list_type \in {"regex", "plain"}
        THEN IF ~has("list") THEN Outcome(FALSE, "exception", << >>, <<file_name>>)
             ELSE IF regex_hits = {} THEN Outcome(FALSE, "none", << >>, <<file_name>>)
             ELSE IF ~has("description")
             THEN Outcome(FALSE, "exception", << >>, <<file_name>>)
             ELSE Outcome(TRUE, "none",
                          <<Line("description", root_dict.description,
                                 IF root_dict.list_type = "regex"
                                 THEN root_dict.list[Min(regex_hits)] ELSE << >>)>>,
                          <<file_name>>)
        ELSE exit_error("Unknown list_type", <<file_name>>)

\* check_in_file after its first line.  A key the file lacks raises
\* KeyError where it is read: 'description' before anything is printed.
in_file(f, file_name, identifier) ==
    LET root_dict == f.json
        has(key) == key \in DOMAIN root_dict
        regex_hits == {i \in DOMAIN root_dict.list : re_fullmatch(root_dict.list[i], identifier)}
        plain_hits == {i \in DOMAIN root_dict.list : identifier = root_dict.list[i]}
    IN  IF f.raised \/ ~has("list_type")
        THEN Outcome(FALSE, "exception", << >>, <<file_name>>)
        ELSE IF root_dict.list_type = "regex"
        THEN IF ~has("list") THEN Outcome(FALSE, "exception", << >>, <<file_name>>)
             ELSE IF regex_hits = {} THEN Outcome(FALSE, "none", << >>, <<file_name>>)
             ELSE IF ~has("description")
             THEN Outcome(FALSE, "exception", << >>, <<file_name>>)
             ELSE Outcome(TRUE, "none",
                          <<Line("description", root_dict.description,
                                 root_dict.list[Min(regex_hits)])>>,
                          <<file_name>>)
        ELSE IF root_dict.list_type = "plain"
        THEN IF ~has("list") THEN Outcome(FALSE, "exception", << >>, <<file_name>>)
             ELSE IF plain_hits = {} THEN Outcome(FALSE, "none", << >>, <<file_name>>)
             ELSE IF ~has("description")
             THEN Outcome(FALSE, "exception", << >>, <<file_name>>)
             ELSE Outcome(TRUE, "none",
                          <<Line("description", root_dict.description, << >>)>>,
                          <<file_name>>)
        ELSE exit_error("Unknown list_type", <<file_name>>)

check_in_file(kb_, standard, file_name, identifier) ==
    in_file(load_from_json(kb_, standard, file_name), file_name, identifier)

\* `first`, and `second` after it unless `first` returned True or did not
\* return at all: "if a(): return True" followed by the call of b.
OrElse(first, second) ==
    IF first.raised # "none" \/ first.ret THEN first
    ELSE Outcome(second.ret, second.raised, first.lines \o second.lines,
                 first.loads \o second.loads)

\* check_format_chapter_reference with the keyword check moved last.
check_format_chapter_reference_keyword_last(kb_, standard, identifier) ==
    OrElse(is_in_use(kb_, standard, identifier),
           OrElse(is_reserved(kb_, standard, identifier),
                  is_keyword(kb_, standard, identifier)))

\* check_format_chapter_reference with the reserved check moved first.
check_format_chapter_reference_reserved_first(kb_, standard, identifier) ==
    OrElse(is_reserved(kb_, standard, identifier),
           OrElse(is_in_use(kb_, standard, identifier),
                  is_keyword(kb_, standard, identifier)))

\* Both calls made, whatever the first returned: "a() or b()" written as
\* "any([a(), b()])".
Both(first, second) ==
    IF first.raised # "none" THEN first
    ELSE Outcome(first.ret \/ second.ret, second.raised, first.lines \o second.lines,
                 first.loads \o second.loads)

\* check_format_chapter_reference evaluating its three checks eagerly.
check_format_chapter_reference_eager(kb_, standard, identifier) ==
    Both(is_in_use(kb_, standard, identifier),
         Both(is_keyword(kb_, standard, identifier),
              is_reserved(kb_, standard, identifier)))

check_format_chapter_reference(kb_, standard, identifier) ==
    OrElse(is_in_use(kb_, standard, identifier),
           OrElse(is_keyword(kb_, standard, identifier),
                  is_reserved(kb_, standard, identifier)))

check_format_list_reference(kb_, standard, identifier) ==
    OrElse(check_in_file(kb_, standard, PARTICULAR_IDENTIFIERS_FILE_NAME, identifier),
           OrElse(check_in_file(kb_, standard, RESERVED_PATTERNS_MATCHING_FILE_NAME, identifier),
                  check_in_file(kb_, standard, RESERVED_PATTERNS_FILE_NAME, identifier)))

\* What check_for_standard prints around the outcome r of the format's
\* check: the standard's name before it, "free for use" after it when the
\* check returned without a match.
for_standard(r, standard, identifier) ==
    Outcome(r.ret, r.raised,
            <<Line("according", STANDARD_CONFIGURATIONS[standard].name, << >>)>>
                \o r.lines
                \o (IF r.raised = "none" /\ ~r.ret
                    THEN <<Line("free", "", identifier)>> ELSE << >>),
            r.loads)

check_for_standard(kb_, standard, identifier) ==
    for_standard(
        CASE STANDARD_CONFIGURATIONS[standard].files_format = "CHAPTER_REFERENCE" ->
                check_format_chapter_reference(kb_, standard, identifier)
          [] STANDARD_CONFIGURATIONS[standard].files_format = "LIST_REFERENCE" ->
                check_format_list_reference(kb_, standard, identifier)
          [] OTHER ->
                exit_error("Unknown file-format is set for the current Standard", << >>),
        standard, identifier)

\* re.match(pattern, string) is not None: a prefix of the string matches.
re_match(pattern, string) ==
    \E n \in 0..Len(string) : re_fullmatch(pattern, SubSeq(string, 1, n))

\* is_valid_c_identifier with re.match in place of re.fullmatch.
is_valid_c_identifier_match(identifier) ==
    IF ~re_match(C_IDENTIFIER_REGEX, identifier)
    THEN [ret |-> FALSE,
          lines |-> <<Line("invalid", "", identifier),
                      Line("must_match", "", C_IDENTIFIER_REGEX)>>]
    ELSE [ret |-> TRUE, lines |-> << >>]

is_valid_c_identifier(identifier) ==
    IF ~re_fullmatch(C_IDENTIFIER_REGEX, identifier)
    THEN [ret |-> FALSE,
          lines |-> <<Line("invalid", "", identifier),
                      Line("must_match", "", C_IDENTIFIER_REGEX)>>]
    ELSE [ret |-> TRUE, lines |-> << >>]

\* check(): the standards its loop goes through.
Targets(standard) ==
    IF standard = STANDARD_ALL THEN STANDARDS ELSE <<standard>>

\* check()'s loop leaving at the first standard that matches.
RemainingUntilMatch(standards, c) == IF c.ret THEN << >> ELSE Tail(standards)

\* check(): the for loop goes on to the next standard whatever the call c
\* returned.
Remaining(standards, c) == Tail(standards)

\* load_from_json opening its file for writing: the files read are empty,
\* hence malformed, afterwards.
KbAfterTruncating(kb_, standard, loads) ==
    [kb_ EXCEPT ![standard] =
        [i \in DOMAIN @ |-> IF FilesOf(standard)[i] \in Range(loads)
                            THEN Len(Opts(standard)[i]) ELSE @[i]]]

\* load_from_json opens its file for reading only: the files a call read
\* are afterwards what they were.
KbAfter(kb_, standard, loads) == kb_

\* A process that ends with status 0 whatever happened.
ExitStatusZero(raised) == 0

\* The exit status of the process: exit(1) in exit_error, 1 for an
\* uncaught exception, 0 when run() returns.
ExitStatus(raised) == IF raised = "none" THEN 0 ELSE 1

\* The record kept of a check_for_standard call and its outcome r.
Call(standard, r) ==
    [standard |-> standard, ret |-> r.ret, raised |-> r.raised,
     lines |-> r.lines, loads |-> r.loads]

\* ------------------------------------------------------------ actions

\* The knowledge bases checked: the complete one with the three files of
\* one standard given any combination of the contents above.
Init ==
    /\ \E dev \in Range(STANDARDS) :
         \E i \in DOMAIN Opts(dev)[1], j \in DOMAIN Opts(dev)[2], k \in DOMAIN Opts(dev)[3] :
            kb = [s \in Range(STANDARDS) |-> IF s = dev THEN <<i, j, k>> ELSE BaseDir(s)]
    /\ \E identifier \in Identifiers, standard \in Range(standard_choices) :
         args = [identifier |-> identifier, standard |-> standard]
    /\ pc = "start"
    /\ todo = << >>
    /\ out = << >>
    /\ calls = << >>
    /\ exit_status = -1
    /\ previous = << >>

\* check(args) up to its loop: the banner, the validation, the early return.
Check ==
    /\ pc = "start"
    /\ LET v == is_valid_c_identifier(args.identifier)
       IN  /\ out' = <<Line("checking", "", args.identifier)>> \o v.lines
           /\ IF ~v.ret
              THEN /\ pc' = "exited"
                   /\ exit_status' = ExitStatus("none")
                   /\ todo' = << >>
              ELSE /\ pc' = "loop"
                   /\ todo' = Targets(args.standard)
                   /\ UNCHANGED exit_status
    /\ UNCHANGED <<kb, args, calls, previous>>

\* One pass of check's loop (or its single call): check_for_standard on the
\* next standard; an exception or exit(1) ends the process.
CheckForStandard ==
    /\ pc = "loop"
    /\ todo # << >>
    /\ calls' = Append(calls, Call(Head(todo),
                                   check_for_standard(kb, Head(todo), args.identifier)))
    /\ LET c == calls'[Len(calls')]
       IN  /\ IF c.raised # "none"
              THEN /\ pc' = "exited"
                   /\ exit_status' = ExitStatus(c.raised)
                   /\ UNCHANGED todo
              ELSE /\ todo' = Remaining(todo, c)
                   /\ UNCHANGED <<pc, exit_status>>
           /\ kb' = KbAfter(kb, c.standard, c.loads)
    /\ UNCHANGED <<args, out, previous>>

\* check() and run() return: the process ends.
Return ==
    /\ pc = "loop"
    /\ todo = << >>
    /\ pc' = "exited"
    /\ exit_status' = ExitStatus("none")
    /\ UNCHANGED <<kb, args, todo, out, calls, previous>>

Next == Check \/ CheckForStandard \/ Return

Spec == Init /\ [][Next]_vars

\* The same command run a second time on the knowledge base the first run
\* left.
Again ==
    /\ pc = "exited"
    /\ previous = << >>
    /\ previous' = <<[out |-> out, calls |-> calls, exit_status |-> exit_status]>>
    /\ pc' = "start"
    /\ todo' = << >>
    /\ out' = << >>
    /\ calls' = << >>
    /\ exit_status' = -1
    /\ UNCHANGED <<kb, args>>

NextRepeat == Check \/ CheckForStandard \/ Return \/ Again

SpecRepeat == Init /\ [][NextRepeat]_vars

\* ------------------------------------------- what the claims speak of

\* The grammar [a-zA-Z_][a-zA-Z0-9_]*, stated character by character.
ValidGrammar(identifier) ==
    /\ identifier # << >>
    /\ identifier[1] \in Letters \cup {"_"}
    /\ \A i \in 2..Len(identifier) : identifier[i] \in Letters \cup Digits \cup {"_"}

IsChapter(standard) ==
    STANDARD_CONFIGURATIONS[standard].files_format = "CHAPTER_REFERENCE"

\* The file has every key the code expects of it, and a list_type it knows.
WellFormed(standard, fn) ==
    LET file == File(kb, standard, fn)
    IN  /\ file.kind = "ok"
        /\ CASE fn \in {IN_USE_FILE_NAME, RESERVED_FILE_NAME} -> TRUE
             [] fn = KEYWORDS_FILE_NAME ->
                    {"keywords", "reference"} \subseteq DOMAIN file.json
             [] OTHER ->
                    /\ {"list_type", "description", "list"} \subseteq DOMAIN file.json
                    /\ file.json.list_type \in {"plain", "regex"}

\* The entries of a rule set, in file order ("none" for a file that holds
\* none that can be read).
Entries(standard, fn) ==
    LET file == File(kb, standard, fn)
    IN  IF file.kind # "ok" THEN << >>
        ELSE CASE fn \in {IN_USE_FILE_NAME, RESERVED_FILE_NAME} ->
                    [i \in DOMAIN file.json |-> file.json[i].key]
               [] fn = KEYWORDS_FILE_NAME ->
                    IF "keywords" \in DOMAIN file.json THEN file.json.keywords ELSE << >>
               [] OTHER ->
                    IF /\ {"list_type", "list"} \subseteq DOMAIN file.json
                       /\ file.json.list_type \in {"plain", "regex"}
                    THEN file.json.list ELSE << >>

\* Whether an entry of a rule set is compared as a regular expression.
ByRegex(standard, fn) ==
    CASE fn \in {IN_USE_FILE_NAME, RESERVED_FILE_NAME} -> TRUE
      [] fn = KEYWORDS_FILE_NAME -> FALSE
      [] OTHER -> File(kb, standard, fn).json.list_type = "regex"

EntryMatches(standard, fn, i, identifier) ==
    IF ByRegex(standard, fn)
    THEN re_fullmatch(Entries(standard, fn)[i], identifier)
    ELSE Entries(standard, fn)[i] = identifier

\* The rule set of file fn has an entry matching the identifier.
Matches(standard, fn, identifier) ==
    \E i \in DOMAIN Entries(standard, fn) : EntryMatches(standard, fn, i, identifier)

\* The first matching entry of a rule set that has one.
FirstMatch(standard, fn, identifier) ==
    CHOOSE i \in DOMAIN Entries(standard, fn) :
        /\ EntryMatches(standard, fn, i, identifier)
        /\ \A j \in 1..(i - 1) : ~EntryMatches(standard, fn, j, identifier)

\* The report of a match in file fn: the category line and its citation.
MatchReport(standard, fn, identifier) ==
    LET json == File(kb, standard, fn).json
        i == FirstMatch(standard, fn, identifier)
        name == STANDARD_CONFIGURATIONS[standard].name
    IN  CASE fn = IN_USE_FILE_NAME ->
                <<Line("in_use", "", identifier), Line("reference", name, <<json[i].val>>)>>
          [] fn = KEYWORDS_FILE_NAME ->
                <<Line("keyword", "", identifier), Line("reference", name, <<json.reference>>)>>
          [] fn = RESERVED_FILE_NAME ->
                <<Line("reserved", "", json[i].key), Line("reference", name, <<json[i].val>>)>>
          [] OTHER ->
                <<Line("description", json.description,
                       IF json.list_type = "regex" THEN json.list[i] ELSE << >>)>>

\* The files of a standard, in precedence order, that match the identifier.
MatchingFiles(standard, identifier) ==
    {i \in DOMAIN FilesOf(standard) : Matches(standard, FilesOf(standard)[i], identifier)}

\* The reference procedure: the report of the first rule set, in
\* precedence order, that matches, and "free for use" if none does.
Reference(standard, identifier) ==
    IF MatchingFiles(standard, identifier) = {}
    THEN <<Line("free", "", identifier)>>
    ELSE MatchReport(standard, FilesOf(standard)[Min(MatchingFiles(standard, identifier))],
                     identifier)

VerdictKinds == {"in_use", "keyword", "reserved", "description", "free"}

IsVerdict(line) == line.k \in VerdictKinds

\* The verdict lines a check_for_standard call printed.
Verdicts(c) == SelectSeq(c.lines, IsVerdict)

\* The category of a call's verdict ("none" for a call that printed none).
Category(c) == IF Verdicts(c) = << >> THEN "none" ELSE Verdicts(c)[1].k

\* What a call printed after its "According to" line.
Report(c) == Tail(c.lines)

Returned(c) == c.raised = "none"

\* -------------------------------------------------------------- claims

\* C1: an identifier that does not match [a-zA-Z_][a-zA-Z0-9_]* is reported
\* invalid, with the pattern, whatever the standard selector, and the run
\* ends there: check_for_standard is never entered and no file is loaded.
C1_InvalidNoLookup ==
    (~ValidGrammar(args.identifier) /\ pc # "start") =>
        /\ pc = "exited"
        /\ calls = << >>
        /\ todo = << >>
        /\ out = <<Line("checking", "", args.identifier),
                   Line("invalid", "", args.identifier),
                   Line("must_match", "", C_IDENTIFIER_REGEX)>>

\* An invalid identifier that starts like a valid one, checked for all
\* standards, after the run.
C1_Witness ==
    /\ pc = "exited"
    /\ args.standard = STANDARD_ALL
    /\ args.identifier = <<"a", "-">>

\* The identifier is one of the keyword literals of a chapter-reference
\* standard.
KeywordLiteral(standard, identifier) ==
    /\ IsChapter(standard)
    /\ Matches(standard, KEYWORDS_FILE_NAME, identifier)

\* C2 as claimed: whenever check_for_standard returns for an identifier
\* that is a keyword literal of the standard, its verdict is Keyword,
\* whatever the other rule sets hold.
C2_KeywordAlways ==
    \A i \in DOMAIN calls :
        (Returned(calls[i]) /\ KeywordLiteral(calls[i].standard, args.identifier)) =>
            Report(calls[i]) = MatchReport(calls[i].standard, KEYWORDS_FILE_NAME,
                                           args.identifier)

\* C2, amended: for a chapter-reference standard whose in-use rule set loads
\* and matches no pattern, and whose keywords file has its keywords and its
\* reference, a keyword literal is classified Keyword with the keyword
\* list's citation; the reserved rule set is not even read.
C2_KeywordUnlessInUse ==
    \A i \in DOMAIN calls :
        LET c == calls[i]
        IN  ( /\ KeywordLiteral(c.standard, args.identifier)
              /\ WellFormed(c.standard, KEYWORDS_FILE_NAME)
              /\ WellFormed(c.standard, IN_USE_FILE_NAME)
              /\ ~Matches(c.standard, IN_USE_FILE_NAME, args.identifier) ) =>
                /\ Returned(c)
                /\ Report(c) = MatchReport(c.standard, KEYWORDS_FILE_NAME, args.identifier)
                /\ c.loads = <<IN_USE_FILE_NAME, KEYWORDS_FILE_NAME>>

\* A keyword that a reserved pattern matches too is classified Keyword.
C2_Witness ==
    \E i \in DOMAIN calls :
        /\ KeywordLiteral(calls[i].standard, args.identifier)
        /\ WellFormed(calls[i].standard, IN_USE_FILE_NAME)
        /\ ~Matches(calls[i].standard, IN_USE_FILE_NAME, args.identifier)
        /\ Matches(calls[i].standard, RESERVED_FILE_NAME, args.identifier)
        /\ Len(Verdicts(calls[i])) = 1
        /\ Category(calls[i]) = "keyword"

\* The in-use rule set of a standard (particular identifiers, for the
\* list-reference standard) and its reserved rule sets.
InUseFile(standard) == FilesOf(standard)[1]

ReservedFiles(standard) ==
    IF IsChapter(standard) THEN {RESERVED_FILE_NAME}
    ELSE {RESERVED_PATTERNS_MATCHING_FILE_NAME, RESERVED_PATTERNS_FILE_NAME}

MatchesBoth(standard, identifier) ==
    /\ WellFormed(standard, InUseFile(standard))
    /\ Matches(standard, InUseFile(standard), identifier)
    /\ \E fn \in ReservedFiles(standard) :
          WellFormed(standard, fn) /\ Matches(standard, fn, identifier)

\* C3: an identifier matching both an in-use pattern and a reserved pattern
\* of a standard is classified InUse, with the citation of the first
\* in-use pattern it matches; no reserved rule set is read or reported.
C3_InUseBeforeReserved ==
    \A i \in DOMAIN calls :
        MatchesBoth(calls[i].standard, args.identifier) =>
            /\ Returned(calls[i])
            /\ Report(calls[i]) = MatchReport(calls[i].standard,
                                              InUseFile(calls[i].standard), args.identifier)
            /\ calls[i].loads = <<InUseFile(calls[i].standard)>>

\* One run in which a chapter-reference and the list-reference standard both
\* had the identifier in their in-use and in a reserved rule set.
C3_Witness ==
    /\ pc = "exited"
    /\ \E i, j \in DOMAIN calls :
          /\ calls[i].standard = "89"
          /\ calls[j].standard = "23"
          /\ MatchesBoth("89", args.identifier)
          /\ MatchesBoth("23", args.identifier)
          /\ Category(calls[i]) = "in_use"

\* C4: for the selector 'all' and a valid identifier, check_for_standard is
\* called once per standard in STANDARDS order; a run that met no error has
\* called it for all five; and every call that returned reports what the
\* reference procedure gives for its standard alone, whatever the calls
\* before it reported.
C4_AllStandardsInOrder ==
    (args.standard = STANDARD_ALL /\ ValidGrammar(args.identifier)) =>
        /\ Len(calls) <= Len(STANDARDS)
        /\ \A i \in DOMAIN calls : calls[i].standard = STANDARDS[i]
        /\ \A i \in DOMAIN calls : i < Len(calls) => Returned(calls[i])
        /\ (pc = "exited" /\ \A i \in DOMAIN calls : Returned(calls[i])) =>
                Len(calls) = Len(STANDARDS)
        /\ \A i \in DOMAIN calls :
                Returned(calls[i]) =>
                    Report(calls[i]) = Reference(calls[i].standard, args.identifier)

\* A run over all five standards in which the first standard found the
\* identifier free, the second matched it and the third did again.
C4_Witness ==
    /\ pc = "exited"
    /\ args.standard = STANDARD_ALL
    /\ Len(calls) = 5
    /\ Category(calls[1]) = "free"
    /\ Category(calls[2]) = "in_use"
    /\ Category(calls[3]) = "reserved"
    /\ Returned(calls[5])

\* The file is missing or malformed, lacks an expected key or has an
\* unknown list_type.
Defective(standard, fn) == ~WellFormed(standard, fn)

\* C5: a run ends with status 0 exactly when nothing raised (whatever the
\* verdicts, an invalid identifier included), and with a non-zero status
\* only when the last call opened a defective knowledge-base file.
C5_ExitStatus ==
    /\ pc # "exited" => exit_status = -1
    /\ pc = "exited" =>
        /\ exit_status \in {0, 1}
        /\ exit_status = 0 <=> \A i \in DOMAIN calls : Returned(calls[i])
        /\ exit_status # 0 =>
              /\ calls # << >>
              /\ LET c == calls[Len(calls)]
                 IN  Defective(c.standard, c.loads[Len(c.loads)])

\* A run that reported a reserved identifier and ended.
C5_Witness ==
    /\ pc = "exited"
    /\ exit_status = 0
    /\ \E i \in DOMAIN calls : Category(calls[i]) = "reserved"

\* C6 as claimed: a check_for_standard call that meets a configuration
\* error prints no verdict, is the last call of the run, and the run ends
\* with a non-zero status.
C6_ConfigErrorNoVerdict ==
    \A i \in DOMAIN calls :
        ~Returned(calls[i]) =>
            /\ Verdicts(calls[i]) = << >>
            /\ i = Len(calls)
            /\ pc = "exited"
            /\ exit_status # 0

C8_ChapterReference ==
    \A i \in DOMAIN calls :
        LET c == calls[i]
        IN  (IsChapter(c.standard) /\ Returned(c)) =>
                /\ Len(Verdicts(c)) = 1
                /\ Report(c) = Reference(c.standard, args.identifier)
                /\ Category(c) = "free" <=>
                      \A fn \in Range(ChapterFiles) : ~Matches(c.standard, fn, args.identifier)

\* A chapter-reference call that went through all three rule sets and
\* found the identifier reserved.
C8_Witness ==
    \E i \in DOMAIN calls :
        /\ IsChapter(calls[i].standard)
        /\ Returned(calls[i])
        /\ Entries(calls[i].standard, IN_USE_FILE_NAME) # << >>
        /\ calls[i].loads = ChapterFiles
        /\ Category(calls[i]) = "reserved"

\* C9: a check_for_standard call for the list-reference standard that
\* returns has read the rule-list files in the order particular
\* identifiers, reserved patterns matching, reserved patterns, up to the
\* first one with a matching entry (equality for a plain list, full match for
\* a regex list), and reports that file's description, or Free.
C9_ListReference ==
    \A i \in DOMAIN calls :
        LET c == calls[i]
            hits == MatchingFiles(c.standard, args.identifier)
        IN  (~IsChapter(c.standard) /\ Returned(c)) =>
                /\ Len(Verdicts(c)) = 1
                /\ Report(c) = Reference(c.standard, args.identifier)
                /\ c.loads = SubSeq(ListFiles, 1, IF hits = {} THEN 3 ELSE Min(hits))

\* A list-reference call whose plain first list holds a literal that, read
\* as a pattern, would match, and whose second, regex, list matches.
C9_Witness ==
    \E i \in DOMAIN calls :
        /\ calls[i].standard = "23"
        /\ Returned(calls[i])
        /\ args.identifier = <<"_", "1">>
        /\ File(kb, "23", PARTICULAR_IDENTIFIERS_FILE_NAME).json.list_type = "plain"
        /\ Len(calls[i].loads) = 2
        /\ Report(calls[i])[1].n = "matches reserved pattern"

\* C10: a call reads the files of its standard in precedence order, each
\* only after the one before it loaded and did not match; a call whose last
\* file read is well formed and matches returns with that match as its
\* verdict, whatever the files after it are.
C10_LazyLoading ==
    \A i \in DOMAIN calls :
        LET c == calls[i]
            n == Len(c.loads)
            files == FilesOf(c.standard)
        IN  /\ n \in 1..Len(files)
            /\ c.loads = SubSeq(files, 1, n)
            /\ \A j \in 1..(n - 1) :
                  /\ File(kb, c.standard, files[j]).kind = "ok"
                  /\ ~Matches(c.standard, files[j], args.identifier)
            /\ (WellFormed(c.standard, files[n]) /\ Matches(c.standard, files[n], args.identifier)) =>
                  /\ Returned(c)
                  /\ Report(c) = MatchReport(c.standard, files[n], args.identifier)

\* A call that returned a match of its first file while its next file is
\* missing.
C10_Witness ==
    \E i \in DOMAIN calls :
        /\ Returned(calls[i])
        /\ Len(calls[i].loads) = 1
        /\ Category(calls[i]) # "free"
        /\ File(kb, calls[i].standard, FilesOf(calls[i].standard)[2]).kind = "missing"

===========================================================================
